---- MODULE Spec2Model ----
(***************************************************************************)
(* A model of JasonDumper (include/JasonDumper.h): the encoder that dumps  *)
(* a Jason slice as JSON text into a byte buffer.                          *)
(*                                                                         *)
(* The buffer is a sequence of byte values (0..255).  64-bit integers are  *)
(* sequences of four 16-bit limbs, most significant first, so that the     *)
(* arithmetic of dumpInteger keeps its width.                              *)
(***************************************************************************)
EXTENDS Integers, Sequences, FiniteSets, TLC

VARIABLES
  _buffer,       \* content of the buffer the dumper is bound to (T* _buffer)
  _indentation,  \* int _indentation
  _strategy,     \* UnsupportedTypeStrategy _strategy
  _callback,     \* std::function _callback (NoCallback when empty)
  PrettyPrint,   \* the template parameter of the instance
  op,            \* the public method called last
  arg,           \* its argument (a slice, or the bytes given to appendString)
  err,           \* the exception the last call ended with, or NoError
  calls,         \* the (slice, parent) pairs the callback got in the last call
  mark           \* length of the buffer when the last call started

vars == <<_buffer, _indentation, _strategy, _callback, PrettyPrint,
          op, arg, err, calls, mark>>

(***************************************************************************)
(* 64-bit arithmetic on limbs                                              *)
(***************************************************************************)
LimbBase == 2^16

Zero64 == <<0, 0, 0, 0>>

RECURSIVE DivRem(_, _, _, _)
\* v / d and v % d for a small d, by schoolbook division from limb i on
DivRem(v, d, i, r) ==
  IF i > Len(v) THEN [q |-> <<>>, r |-> r]
  ELSE LET cur  == r * LimbBase + v[i]
           rest == DivRem(v, d, i + 1, cur % d)
       IN  [q |-> <<cur \div d>> \o rest.q, r |-> rest.r]

Div10(v) == DivRem(v, 10, 1, 0).q
Mod10(v) == DivRem(v, 10, 1, 0).r

RECURSIVE MulAddFrom(_, _, _, _)
\* (v * m + a) mod 2^64 for small m and a, from limb i down to the first
MulAddFrom(v, m, a, i) ==
  IF i = 0 THEN <<>>
  ELSE LET cur == v[i] * m + a
       IN  MulAddFrom(v, m, cur \div LimbBase, i - 1) \o <<cur % LimbBase>>

MulAdd(v, m, a) == MulAddFrom(v, m, a, Len(v))

RECURSIVE Pow10(_)
Pow10(k) == IF k = 0 THEN <<0, 0, 0, 1>> ELSE MulAdd(Pow10(k - 1), 10, 0)

\* the powers of ten of the threshold cascade, 10^0 .. 10^19
Pow10Table == [k \in 0..19 |-> Pow10(k)]

RECURSIVE DivPow10(_, _)
\* v / 10^k
DivPow10(v, k) == IF k = 0 THEN v ELSE Div10(DivPow10(v, k - 1))

RECURSIVE LeFrom(_, _, _)
LeFrom(a, b, i) ==
  IF i > Len(a) THEN TRUE
  ELSE IF a[i] # b[i] THEN a[i] < b[i]
  ELSE LeFrom(a, b, i + 1)

\* a <= b, both unsigned
ULe(a, b) == LeFrom(a, b, 1)

\* the sign bit of an int64_t
IsNeg(v) == v[1] >= LimbBase \div 2

\* -v in two's complement
Negate(v) == MulAdd([i \in 1..Len(v) |-> LimbBase - 1 - v[i]], 1, 1)

INT64_MIN == <<LimbBase \div 2, 0, 0, 0>>

\* c <= v for int64_t v and a positive constant c
SLe(c, v) == ~IsNeg(v) /\ ULe(c, v)

\* (v / 10^k) % 10 for int64_t v: C++ division truncates towards zero and
\* the remainder takes the sign of the dividend
SDigit(v, k) ==
  IF IsNeg(v) THEN 0 - Mod10(DivPow10(Negate(v), k))
  ELSE Mod10(DivPow10(v, k))

\* what push_back(char) stores for an int expression
ToChar(x) == x % 256

(***************************************************************************)
(* The state a call works on: the buffer, the indentation, the exception   *)
(* in flight and the callback's invocations.  Once an exception is thrown  *)
(* every later statement of the call is skipped.                           *)
(***************************************************************************)
NoError == "none"

\* _buffer->push_back / _buffer->append
Put(st, bytes) ==
  IF st.err # NoError THEN st ELSE [st EXCEPT !.buffer = @ \o bytes]

Throw(st, e) ==
  IF st.err # NoError THEN st ELSE [st EXCEPT !.err = e]

(***************************************************************************)
(* dumpInteger                                                             *)
(***************************************************************************)
\* the cascade without its first line
UIntTopExpLower == 19 - 1

\* the exponents of the first thresholds, 10^19 (line 312) and 10^18 (line 345)
UIntTopExp == 19
IntTopExp == 18

RECURSIVE UIntCascade(_, _)
\* lines 312-330: one digit for every power of ten 10^k .. 10^1 not above v
UIntCascade(v, k) ==
  IF k = 0 THEN <<>>
  ELSE (IF ULe(Pow10Table[k], v) THEN <<ToChar(48 + Mod10(DivPow10(v, k)))>> ELSE <<>>)
       \o UIntCascade(v, k - 1)

RECURSIVE IntCascade(_, _)
\* lines 345-362
IntCascade(v, k) ==
  IF k = 0 THEN <<>>
  ELSE (IF SLe(Pow10Table[k], v) THEN <<ToChar(48 + SDigit(v, k))>> ELSE <<>>)
       \o IntCascade(v, k - 1)

dumpInteger(slice, st) ==
  IF slice.type = "UInt" THEN
    LET v == slice.v
    IN  Put(st, UIntCascade(v, UIntTopExp) \o <<ToChar(48 + Mod10(v))>>)
  ELSE IF slice.type = "Int" THEN
    LET v0 == slice.v
        s1 == IF IsNeg(v0) THEN Put(st, <<45>>) ELSE st
    IN  IF v0 = INT64_MIN
        THEN Put(s1, <<57,50,50,51,51,55,50,48,51,54,56,53,52,55,55,53,56,48,56>>)
        ELSE LET v == Negate(v0)
             IN  Put(s1, IntCascade(v, IntTopExp) \o <<ToChar(48 + SDigit(v, 0))>>)
  ELSE IF slice.type = "SmallInt" THEN
    LET v0 == slice.n
        s1 == IF v0 < 0 THEN Put(st, <<45>>) ELSE st
        v  == IF v0 < 0 THEN 0 - v0 ELSE v0
    IN  Put(s1, <<ToChar(48 + v)>>)
  ELSE Throw(st, "InternalError")

(***************************************************************************)
(* dumpString                                                              *)
(***************************************************************************)
\* the 256 entries of EscapeTable, row by row as in the source; entry c is
\* EscapeTableRows[c + 1]
EscapeTableRows == <<
  117, 117, 117, 117, 117, 117, 117, 117,  98, 116, 110, 117, 102, 114, 117, 117,
  117, 117, 117, 117, 117, 117, 117, 117, 117, 117, 117, 117, 117, 117, 117, 117,
    0,   0,  34,   0,   0,   0,   0,   0,   0,   0,   0,   0,   0,   0,   0,  47,
    0,   0,   0,   0,   0,   0,   0,   0,   0,   0,   0,   0,   0,   0,   0,   0,
    0,   0,   0,   0,   0,   0,   0,   0,   0,   0,   0,   0,   0,   0,   0,   0,
    0,   0,   0,   0,   0,   0,   0,   0,   0,   0,   0,   0,  92,   0,   0,   0,
    0,   0,   0,   0,   0,   0,   0,   0,   0,   0,   0,   0,   0,   0,   0,   0,
    0,   0,   0,   0,   0,   0,   0,   0,   0,   0,   0,   0,   0,   0,   0,   0,
    0,   0,   0,   0,   0,   0,   0,   0,   0,   0,   0,   0,   0,   0,   0,   0,
    0,   0,   0,   0,   0,   0,   0,   0,   0,   0,   0,   0,   0,   0,   0,   0,
    0,   0,   0,   0,   0,   0,   0,   0,   0,   0,   0,   0,   0,   0,   0,   0,
    0,   0,   0,   0,   0,   0,   0,   0,   0,   0,   0,   0,   0,   0,   0,   0,
    0,   0,   0,   0,   0,   0,   0,   0,   0,   0,   0,   0,   0,   0,   0,   0,
    0,   0,   0,   0,   0,   0,   0,   0,   0,   0,   0,   0,   0,   0,   0,   0,
    0,   0,   0,   0,   0,   0,   0,   0,   0,   0,   0,   0,   0,   0,   0,   0,
    0,   0,   0,   0,   0,   0,   0,   0,   0,   0,   0,   0,   0,   0,   0,   0
>>

\* the table without its entry for '/'
EscapeTableNoSlash(c) == IF c = 47 THEN 0 ELSE EscapeTableRows[c + 1]

EscapeTable(c) == EscapeTableRows[c + 1]

\* the bound test asking for one byte more than the sequence has
TruncatedOneMore(p, n, e) == p + n >= e

\* p + (n - 1) >= e: the n-byte sequence at p does not end before e
Truncated(p, n, e) == p + (n - 1) >= e

\* (i < 10) ? ('0' + i) : ('A' + i - 10)
HexDigit(i) == IF i < 10 THEN 48 + i ELSE 65 + i - 10

RECURSIVE ScanFrom(_, _, _)
\* the while loop of dumpString with p at the byte of index p (1-based);
\* e, one past the end, is Len(src) + 1
ScanFrom(src, p, st) ==
  IF st.err # NoError \/ ~(p < Len(src) + 1) THEN st
  ELSE
    LET c == src[p]
        e == Len(src) + 1
    IN  IF c \div 128 = 0 THEN
          LET esc == EscapeTable(c)
          IN  IF esc # 0 THEN
                ScanFrom(src, p + 1,
                  Put(st, <<92, esc>> \o
                          (IF esc = 117
                           THEN <<48, 48, HexDigit((c % 256) \div 16), HexDigit(c % 16)>>
                           ELSE <<>>)))
              ELSE ScanFrom(src, p + 1, Put(st, <<c>>))
        ELSE IF c \div 32 = 6 THEN
          IF Truncated(p, 2, e) THEN Throw(st, "InvalidUtf8Sequence")
          ELSE ScanFrom(src, p + 2, Put(st, SubSeq(src, p, p + 1)))
        ELSE IF c \div 16 = 14 THEN
          IF Truncated(p, 3, e) THEN Throw(st, "InvalidUtf8Sequence")
          ELSE ScanFrom(src, p + 3, Put(st, SubSeq(src, p, p + 2)))
        ELSE IF c \div 8 = 30 THEN
          IF Truncated(p, 4, e) THEN Throw(st, "InvalidUtf8Sequence")
          ELSE ScanFrom(src, p + 4, Put(st, SubSeq(src, p, p + 3)))
        ELSE ScanFrom(src, p + 1, st)

dumpString(src, st) == ScanFrom(src, 1, st)

(***************************************************************************)
(* handleUnsupportedType, indent, internalDump                             *)
(***************************************************************************)
StrategyNullify == "StrategyNullify"
StrategyFail == "StrategyFail"

\* the configuration of an instance: [pretty, strategy, callback]
\* the strategies taken for one another
handleUnsupportedTypeSwapped(st, cfg) ==
  IF cfg.strategy = StrategyFail THEN Put(st, <<110, 117, 108, 108>>)
  ELSE Throw(st, "NoJsonEquivalent")

handleUnsupportedType(st, cfg) ==
  IF cfg.strategy = StrategyNullify THEN Put(st, <<110, 117, 108, 108>>)
  ELSE Throw(st, "NoJsonEquivalent")

\* one space for each level
SpacesSingle(n) == [i \in 1..n |-> 32]

RECURSIVE Spaces(_)
\* n times "  "
Spaces(n) == IF n <= 0 THEN <<>> ELSE <<32, 32>> \o Spaces(n - 1)

indent(st) == Put(st, Spaces(st.indentation))

\* ++_indentation and --_indentation
Indent(st, d) ==
  IF st.err # NoError THEN st ELSE [st EXCEPT !.indentation = @ + d]

\* an empty std::function, and the nullptr parent
NoCallback == [set |-> FALSE, handles |-> {}, text |-> <<>>]
NullPtr == [type |-> "nullptr"]

\* fpconv_dtoa, declared at line 44 and defined elsewhere: the text of the
\* finite doubles the model uses
fpconv_dtoa(v) ==
  CASE v = "1.5"   -> <<49, 46, 53>>
    [] v = "-0.25" -> <<45, 48, 46, 50, 53>>

NonFinite == {"nan", "inf", "-inf"}

\* _callback && _callback(_buffer, slice, parent): the callback is recorded
\* with its arguments (of the buffer, the length it has then); it reports a
\* slice as handled when the slice's type is one of those it handles, after
\* writing its own text
\* the callback's answer ignored
CallbackIgnored(slice, cfg) == FALSE

CallbackHandles(slice, cfg) ==
  cfg.callback.set /\ slice.type \in cfg.callback.handles

CallCallback(slice, parent, st, cfg) ==
  IF ~cfg.callback.set THEN st
  ELSE LET s1 == [st EXCEPT !.calls =
                    Append(@, [slice |-> slice, parent |-> parent,
                               at |-> Len(st.buffer)])]
       IN  IF slice.type \in cfg.callback.handles THEN Put(s1, cfg.callback.text)
           ELSE s1

\* the External's own parent handed on
ExternalParentKept(parent) == parent

\* the parent given for the slice an External points to (line 262)
ExternalParent(parent) == NullPtr

RECURSIVE internalDump(_, _, _, _)
RECURSIVE ArrayLoop(_, _, _, _)
RECURSIVE ObjectLoop(_, _, _, _)

\* the for loops of case Array, from index i (1-based) on
ArrayLoop(slice, i, st, cfg) ==
  LET n == Len(slice.items)
  IN  IF st.err # NoError \/ i > n THEN st
      ELSE IF cfg.pretty THEN
        LET s1 == internalDump(slice.items[i], slice, indent(st), cfg)
            s2 == IF i # n THEN Put(s1, <<44>>) ELSE s1
        IN  ArrayLoop(slice, i + 1, Put(s2, <<10>>), cfg)
      ELSE
        LET s1 == IF i > 1 THEN Put(st, <<44>>) ELSE st
        IN  ArrayLoop(slice, i + 1, internalDump(slice.items[i], slice, s1, cfg), cfg)

\* the for loops of case Object
ObjectLoop(slice, i, st, cfg) ==
  LET n == Len(slice.keys)
  IN  IF st.err # NoError \/ i > n THEN st
      ELSE IF cfg.pretty THEN
        LET s1 == internalDump(slice.keys[i], slice, indent(st), cfg)
            s2 == internalDump(slice.vals[i], slice, Put(s1, <<32, 58, 32>>), cfg)
            s3 == IF i # n THEN Put(s2, <<44>>) ELSE s2
        IN  ObjectLoop(slice, i + 1, Put(s3, <<10>>), cfg)
      ELSE
        LET s1 == IF i > 1 THEN Put(st, <<44>>) ELSE st
            s2 == internalDump(slice.keys[i], slice, s1, cfg)
            s3 == internalDump(slice.vals[i], slice, Put(s2, <<58>>), cfg)
        IN  ObjectLoop(slice, i + 1, s3, cfg)

internalDump(slice, parent, st, cfg) ==
  IF st.err # NoError THEN st
  ELSE IF CallbackHandles(slice, cfg) THEN CallCallback(slice, parent, st, cfg)
  ELSE
    LET s0 == CallCallback(slice, parent, st, cfg)
        t  == slice.type
    IN  CASE t = "None" -> handleUnsupportedType(s0, cfg)
          [] t = "Null" -> Put(s0, <<110, 117, 108, 108>>)
          [] t = "Bool" ->
               IF slice.b THEN Put(s0, <<116, 114, 117, 101>>)
               ELSE Put(s0, <<102, 97, 108, 115, 101>>)
          [] t = "Array" ->
               IF cfg.pretty THEN
                 LET s1 == Indent(Put(s0, <<91, 10>>), 1)
                     s2 == ArrayLoop(slice, 1, s1, cfg)
                 IN  Put(indent(Indent(s2, -1)), <<93>>)
               ELSE Put(ArrayLoop(slice, 1, Put(s0, <<91>>), cfg), <<93>>)
          [] t = "Object" ->
               IF cfg.pretty THEN
                 LET s1 == Indent(Put(s0, <<123, 10>>), 1)
                     s2 == ObjectLoop(slice, 1, s1, cfg)
                 IN  Put(indent(Indent(s2, -1)), <<125>>)
               ELSE Put(ObjectLoop(slice, 1, Put(s0, <<123>>), cfg), <<125>>)
          [] t = "Double" ->
               IF slice.d \in NonFinite THEN handleUnsupportedType(s0, cfg)
               ELSE Put(s0, fpconv_dtoa(slice.d))
          [] t = "UTCDate" -> handleUnsupportedType(s0, cfg)
          [] t = "External" -> internalDump(slice.target, ExternalParent(parent), s0, cfg)
          [] t \in {"MinKey", "MaxKey"} -> handleUnsupportedType(s0, cfg)
          [] t \in {"Int", "UInt", "SmallInt"} -> dumpInteger(slice, s0)
          [] t = "String" -> Put(dumpString(slice.s, Put(s0, <<34>>)), <<34>>)
          [] t = "Binary" -> handleUnsupportedType(s0, cfg)
          [] t = "BCD" -> handleUnsupportedType(s0, cfg)
          [] t = "Custom" -> handleUnsupportedType(s0, cfg)

(***************************************************************************)
(* The slices the model dumps                                              *)
(***************************************************************************)
MaxLen == 2        \* most members of an array or object
MaxStrLen == 5     \* most bytes of a string handed to appendString
MaxBuffer == 6     \* a further call is made while the buffer is this short
MaxIndent == 2     \* and the indentation this small

RECURSIVE FromDigits(_)
\* the 64-bit value written with the decimal digits ds
FromDigits(ds) ==
  IF ds = <<>> THEN Zero64
  ELSE MulAdd(FromDigits(SubSeq(ds, 1, Len(ds) - 1)), 10, ds[Len(ds)])

Max64 == [i \in 1..4 |-> LimbBase - 1]
Succ64(v) == MulAdd(v, 1, 1)
Pred64(v) == Negate(Succ64(Negate(v)))

UInt64MaxDigits == <<1,8,4,4,6,7,4,4,0,7,3,7,0,9,5,5,1,6,1,5>>
Int64MaxDigits == <<9,2,2,3,3,7,2,0,3,6,8,5,4,7,7,5,8,0,7>>

\* 64-bit patterns around every power of ten, the ends of the range, and the
\* leading digits of the two largest values
Values64 ==
  {Pow10(k) : k \in 0..19} \cup {Pred64(Pow10(k)) : k \in 0..19}
    \cup {Succ64(Pow10(k)) : k \in 0..19}
    \cup {Zero64, Max64, INT64_MIN, Pred64(INT64_MIN), Succ64(INT64_MIN)}
    \cup {FromDigits(SubSeq(UInt64MaxDigits, 1, n)) : n \in 1..20}
    \cup {FromDigits(SubSeq(Int64MaxDigits, 1, n)) : n \in 1..19}

UIntSlice(v) == [type |-> "UInt", v |-> v]
IntSlice(v) == [type |-> "Int", v |-> v]
SmallIntSlice(n) == [type |-> "SmallInt", n |-> n]

IntegerSlices ==
  {UIntSlice(v) : v \in Values64}
    \cup {IntSlice(v) : v \in Values64} \cup {IntSlice(Negate(v)) : v \in Values64}
    \cup {SmallIntSlice(n) : n \in -6..9}

\* all sequences over S of length 0..n
RECURSIVE SeqsUpTo(_, _)
SeqsUpTo(S, n) ==
  IF n = 0 THEN {<<>>}
  ELSE LET shorter == SeqsUpTo(S, n - 1)
       IN  shorter \cup {Append(s, x) : s \in shorter, x \in S}

\* bytes of every class the escaper tells apart: control bytes with and
\* without a short escape, the escaped printable bytes, plain ASCII, DEL,
\* continuation bytes, leading bytes of 2, 3 and 4 byte sequences, 0xF8-0xFF
ScanBytes == {8, 31, 34, 47, 65, 127, 128, 191, 195, 226, 240, 248, 255}

\* one byte of each kind for the longer strings: an escaped and a plain ASCII
\* byte, a continuation byte, and a leading byte of each length
SeqBytes == {34, 65, 128, 195, 226, 240}

StringInputs ==
  {<<c>> : c \in 0..255} \cup SeqsUpTo(ScanBytes, 2) \cup SeqsUpTo(SeqBytes, MaxStrLen)

NullSlice == [type |-> "Null"]
BoolSlice(b) == [type |-> "Bool", b |-> b]
DoubleSlice(d) == [type |-> "Double", d |-> d]
StringSlice(s) == [type |-> "String", s |-> s]
ArraySlice(items) == [type |-> "Array", items |-> items]
ObjectSlice(pairs) ==
  [type |-> "Object", keys |-> [i \in 1..Len(pairs) |-> pairs[i][1]],
                      vals |-> [i \in 1..Len(pairs) |-> pairs[i][2]]]
ExternalSlice(target) == [type |-> "External", target |-> target]
TagSlice(t) == [type |-> t]

\* the types handleUnsupportedType is called for, besides non-finite doubles
UnsupportedTags == {"None", "UTCDate", "MinKey", "MaxKey", "Binary", "BCD", "Custom"}

Seven == UIntSlice(FromDigits(<<7>>))
StrA == StringSlice(<<97>>)
StrK == StringSlice(<<107>>)
NoneSlice == TagSlice("None")
NaNSlice == DoubleSlice("nan")
\* a string that ends inside a two-byte sequence
BadString == StringSlice(<<97, 195>>)

Scalars ==
  {NullSlice, BoolSlice(TRUE), BoolSlice(FALSE), Seven, StrA, BadString,
   IntSlice(Negate(FromDigits(<<4, 2>>))), SmallIntSlice(-3), SmallIntSlice(4),
   DoubleSlice("1.5"), DoubleSlice("-0.25")}
    \cup {DoubleSlice(v) : v \in NonFinite}
    \cup {TagSlice(t) : t \in UnsupportedTags}

\* members of the inner containers
Kids == {Seven, StrA, NoneSlice, NaNSlice}
Pairs == {<<StrK, Seven>>, <<StrK, NoneSlice>>, <<NoneSlice, Seven>>, <<StrA, StrA>>}

Inner ==
  {ArraySlice(s) : s \in SeqsUpTo(Kids, MaxLen)}
    \cup {ObjectSlice(s) : s \in SeqsUpTo(Pairs, MaxLen)}

\* members of the outer containers
Members ==
  {Seven, NoneSlice, TagSlice("Binary"), ArraySlice(<<>>), ArraySlice(<<Seven>>),
   ObjectSlice(<<<<StrK, NoneSlice>>>>), ExternalSlice(ArraySlice(<<StrA>>))}

Outer ==
  {ArraySlice(s) : s \in SeqsUpTo(Members, MaxLen)}
    \cup {ObjectSlice(s) : s \in SeqsUpTo({<<StrK, m>> : m \in Members}, MaxLen)}

Externals == {ExternalSlice(x) : x \in {Seven, NoneSlice, ArraySlice(<<Seven>>)}}

Slices == Scalars \cup Inner \cup Outer \cup Externals

\* callbacks: each handles the slices of some types and writes "null" for them
Callbacks ==
  {[set |-> TRUE, handles |-> h, text |-> <<110, 117, 108, 108>>] :
     h \in {{}, {"String", "None"}, {"Array", "UInt"}, {"Object", "External"}}}

(***************************************************************************)
(* The public methods                                                      *)
(***************************************************************************)
Cfg == [pretty |-> PrettyPrint, strategy |-> _strategy, callback |-> _callback]

\* the state a call starts from
Entry(ind) ==
  [buffer |-> _buffer, indentation |-> ind, err |-> NoError, calls |-> <<>>]

\* what a call leaves behind
Leave(name, a, st) ==
  /\ _buffer' = st.buffer
  /\ _indentation' = st.indentation
  /\ err' = st.err
  /\ calls' = st.calls
  /\ op' = name
  /\ arg' = a
  /\ mark' = Len(_buffer)
  /\ UNCHANGED <<_strategy, _callback, PrettyPrint>>

\* dump emptying the buffer first
dumpFromEmpty(slice) ==
  Leave("dump", slice,
        internalDump(slice, NullPtr, [Entry(0) EXCEPT !.buffer = <<>>], Cfg))

dump(slice) ==
  Leave("dump", slice, internalDump(slice, NullPtr, Entry(0), Cfg))

append(slice) ==
  Leave("append", slice, internalDump(slice, NullPtr, Entry(_indentation), Cfg))

\* the (src, len) argument of appendString
CharsArg(src) == [type |-> "chars", s |-> src]

appendString(src) ==
  Leave("appendString", CharsArg(src),
        Put(dumpString(src, Put(Entry(_indentation), <<34>>)), <<34>>))

reset ==
  /\ _buffer' = <<>>
  /\ op' = "reset"
  /\ arg' = NullPtr
  /\ err' = NoError
  /\ calls' = <<>>
  /\ mark' = Len(_buffer)
  /\ UNCHANGED <<_indentation, _strategy, _callback, PrettyPrint>>

setCallback(callback) ==
  /\ _callback' = callback
  /\ op' = "setCallback"
  /\ err' = NoError
  /\ calls' = <<>>
  /\ mark' = Len(_buffer)
  /\ UNCHANGED <<_buffer, _indentation, _strategy, PrettyPrint>>

\* JasonDumper(buffer, strategy): a new instance on an empty buffer
Constructed ==
  /\ _buffer = <<>>
  /\ _indentation = 0
  /\ _strategy \in {StrategyNullify, StrategyFail}
  /\ _callback = NoCallback
  /\ PrettyPrint \in BOOLEAN
  /\ op = "new"
  /\ err = NoError
  /\ calls = <<>>
  /\ mark = 0

(***************************************************************************)
(* Spec: sequences of calls on one instance.  A further call is made while *)
(* the buffer is short, the indentation is small and the call before it    *)
(* was one of a few (Seeds), so that the sequences stay finite.            *)
(***************************************************************************)
Init == Constructed /\ arg = NullPtr

Nested == ArraySlice(<<Seven, ArraySlice(<<NoneSlice>>)>>)

Seeds == {Seven, ArraySlice(<<NoneSlice>>), Nested}

CallSlices ==
  Seeds \cup {NoneSlice, BadString, ArraySlice(<<>>), ArraySlice(<<Seven, Seven>>),
              ObjectSlice(<<<<StrK, Seven>>>>),
              ObjectSlice(<<<<StrK, ArraySlice(<<BadString>>)>>>>),
              ExternalSlice(ArraySlice(<<NaNSlice>>))}

CallStrings == SeqsUpTo({97, 195}, 2)

MayCall ==
  /\ Len(_buffer) <= MaxBuffer
  /\ _indentation <= MaxIndent
  /\ op \in {"new", "reset"} \/ arg \in Seeds

DumpCall == MayCall /\ \E s \in CallSlices : dump(s)
AppendCall == MayCall /\ \E s \in CallSlices : append(s)
AppendStringCall == MayCall /\ \E s \in CallStrings : appendString(s)
ResetCall == op # "reset" /\ reset

Next == DumpCall \/ AppendCall \/ AppendStringCall \/ ResetCall

Spec == Init /\ [][Next]_vars

(***************************************************************************)
(* SpecDump: one slice dumped by a new instance, with or without a         *)
(* callback set before                                                     *)
(***************************************************************************)
InitDump == Constructed /\ arg \in Slices

SetCallbackFirst ==
  /\ op = "new"
  /\ \E c \in Callbacks : setCallback(c) /\ arg' = arg

DumpArg == op \in {"new", "setCallback"} /\ dump(arg)
AppendArg == op \in {"new", "setCallback"} /\ append(arg)

NextDump == SetCallbackFirst \/ DumpArg \/ AppendArg

SpecDump == InitDump /\ [][NextDump]_vars

(***************************************************************************)
(* SpecInteger: one integer slice dumped by a new instance                 *)
(***************************************************************************)
InitInteger == Constructed /\ arg \in IntegerSlices

DumpInteger == op = "new" /\ dump(arg)

SpecInteger == InitInteger /\ [][DumpInteger]_vars

(***************************************************************************)
(* SpecString: one byte string given to appendString of a new instance     *)
(***************************************************************************)
InitString ==
  /\ Constructed
  /\ ~PrettyPrint
  /\ _strategy = StrategyFail
  /\ arg \in {CharsArg(s) : s \in StringInputs}

AppendStringArg == op = "new" /\ appendString(arg.s)

SpecString == InitString /\ [][AppendStringArg]_vars

(***************************************************************************)
(* What the claims speak of                                                *)
(***************************************************************************)
\* the bytes the last call appended
Appended == SubSeq(_buffer, mark + 1, Len(_buffer))

\* a call's state on an empty buffer
Empty == [buffer |-> <<>>, indentation |-> 0, err |-> NoError, calls |-> <<>>]

IsPrefix(s, t) == Len(s) <= Len(t) /\ SubSeq(t, 1, Len(s)) = s

RECURSIVE Digits(_)
\* the decimal digits of an unsigned value, found from the units digit up
Digits(v) == IF v = Zero64 THEN <<>> ELSE Digits(Div10(v)) \o <<48 + Mod10(v)>>

\* the minimal decimal text of an unsigned value
DecimalText(v) == IF v = Zero64 THEN <<48>> ELSE Digits(v)

\* the minimal decimal text of a signed value: '-' and the magnitude
SignedText(v) ==
  IF IsNeg(v) THEN <<45>> \o DecimalText(Negate(v)) ELSE DecimalText(v)

TextUInt64Max == <<49,56,52,52,54,55,52,52,48,55,51,55,48,57,53,53,49,54,49,53>>
TextInt64Min == <<45,57,50,50,51,51,55,50,48,51,54,56,53,52,55,55,53,56,48,56>>

IntegerDumped(t) == op = "dump" /\ arg.type = t

\* C1: dumping a SignedInt slice appends the minimal decimal text of its value:
\* '-' first exactly when the value is negative, then the digits of the
\* magnitude without leading zeros; 0 gives "0", -1 gives "-1" and the least
\* 64-bit value gives "-9223372036854775808".
C1_SignedIntText ==
  IntegerDumped("Int") =>
    /\ err = NoError
    /\ Appended = SignedText(arg.v)
    /\ (arg.v = Zero64 => Appended = <<48>>)
    /\ (arg.v = Max64 => Appended = <<45, 49>>)
    /\ (arg.v = INT64_MIN => Appended = TextInt64Min)

\* C1, the part the code keeps: zero and the negative values
C1_NegativeIntText ==
  IntegerDumped("Int") /\ (IsNeg(arg.v) \/ arg.v = Zero64) =>
    /\ err = NoError
    /\ Appended = SignedText(arg.v)
    /\ (arg.v = INT64_MIN => Appended = TextInt64Min)

C1_Witness ==
  IntegerDumped("Int") /\ arg.v = INT64_MIN /\ Appended = TextInt64Min

\* C2: dumping an UnsignedInt slice with value v in 0..2^64-1 appends the
\* minimal decimal text of v: one digit for every power of ten 10^19..10^1
\* that does not exceed v and then the units digit, no leading zero; 0 gives
\* "0" and 2^64-1 gives "18446744073709551615".
C2_UnsignedIntText ==
  IntegerDumped("UInt") =>
    /\ err = NoError
    /\ Appended = DecimalText(arg.v)
    /\ Len(Appended) = 1 + Cardinality({k \in 1..19 : ULe(Pow10Table[k], arg.v)})
    /\ (Len(Appended) > 1 => Appended[1] # 48)
    /\ (arg.v = Zero64 => Appended = <<48>>)
    /\ (arg.v = Max64 => Appended = TextUInt64Max)

C2_Witness ==
  IntegerDumped("UInt") /\ arg.v = Max64 /\ Appended = TextUInt64Max

\* the body appendString has written for the bytes s, and how it ended
StringDumped == op = "appendString" /\ Len(arg.s) >= 1

\* the first bytes of the input gave `first`, and the scan went on with `rest`
ScanGave(first, rest) ==
  LET r == dumpString(rest, Empty)
  IN  /\ err = r.err
      /\ Appended = <<34>> \o first \o r.buffer
                      \o (IF r.err = NoError THEN <<34>> ELSE <<>>)

\* a byte with the high bit set that leads no 2, 3 or 4 byte sequence
IsStray(c) == c \in 128..191 \/ c \in 248..255

\* the length of the sequence a leading byte announces
LeadLen(c) ==
  IF c \in 192..223 THEN 2 ELSE IF c \in 224..239 THEN 3
  ELSE IF c \in 240..247 THEN 4 ELSE 0

\* C3: a byte with the high bit set that is no leading byte of a 2, 3 or 4
\* byte sequence (0x80-0xBF, 0xF8-0xFF) is copied to the output as one raw
\* byte, without an error, and the scan goes on with the next byte.
C3_StrayByteCopied ==
  StringDumped /\ IsStray(arg.s[1]) => ScanGave(<<arg.s[1]>>, Tail(arg.s))

\* C4: a leading byte of an n-byte sequence (n = 2, 3, 4) raises the
\* invalid-encoding error exactly when fewer than n-1 bytes follow it within
\* the length; otherwise the n bytes are appended as they are and the scan
\* goes on after the sequence.
C4_LeadingByte ==
  StringDumped /\ LeadLen(arg.s[1]) # 0 =>
    LET n == LeadLen(arg.s[1])
    IN  IF Len(arg.s) - 1 < n - 1
        THEN err = "InvalidUtf8Sequence" /\ Appended = <<34>>
        ELSE ScanGave(SubSeq(arg.s, 1, n), SubSeq(arg.s, n + 1, Len(arg.s)))

C4_Witness ==
  /\ StringDumped
  /\ arg.s = <<240, 128, 34, 226, 65>>
  /\ err = NoError
  /\ Appended = <<34, 240, 128, 34, 226, 65, 34>>

UpperHex == <<48, 49, 50, 51, 52, 53, 54, 55, 56, 57, 65, 66, 67, 68, 69, 70>>

\* what the escaper is to emit for an ASCII byte
Escaped(c) ==
  CASE c = 8  -> <<92, 98>>
    [] c = 9  -> <<92, 116>>
    [] c = 10 -> <<92, 110>>
    [] c = 12 -> <<92, 102>>
    [] c = 13 -> <<92, 114>>
    [] c = 34 -> <<92, 34>>
    [] c = 92 -> <<92, 92>>
    [] c = 47 -> <<92, 47>>
    [] OTHER  ->
         IF c < 32
         THEN <<92, 117, 48, 48, UpperHex[(c \div 16) + 1], UpperHex[(c % 16) + 1]>>
         ELSE <<c>>

\* C5: for a byte 0x00-0x7F the escaper emits the two-character escape for
\* backspace, tab, newline, form feed, carriage return, '"', '\' and '/', the
\* six characters \u00XX (uppercase hex) for every other byte below 0x20, and
\* the byte itself otherwise.
C5_AsciiByte ==
  StringDumped /\ arg.s[1] \in 0..127 => ScanGave(Escaped(arg.s[1]), Tail(arg.s))

C5_Witness ==
  /\ StringDumped
  /\ arg.s = <<31, 47>>
  /\ Appended = <<34, 92, 117, 48, 48, 49, 70, 92, 47, 34>>

(***************************************************************************)
(* Claims about the traversal                                              *)
(***************************************************************************)
Dumped == op \in {"dump", "append"}

\* the cases the claim lists as having no JSON equivalent
IsUnsupported(s) ==
  \/ s.type \in {"None", "UTCDate", "Binary", "MinKey", "MaxKey", "BCD", "Custom"}
  \/ s.type = "Double" /\ s.d \in {"nan", "inf", "-inf"}

\* the members of a container in storage order, an object's keys before
\* their values
Children(s) ==
  IF s.type = "Array" THEN s.items
  ELSE IF s.type = "Object"
  THEN [i \in 1..(2 * Len(s.keys)) |->
          IF i % 2 = 1 THEN s.keys[(i + 1) \div 2] ELSE s.vals[i \div 2]]
  ELSE <<>>

RECURSIVE HasUnsupported(_)
HasUnsupported(s) ==
  \/ IsUnsupported(s)
  \/ \E i \in 1..Len(Children(s)) : HasUnsupported(Children(s)[i])
  \/ s.type = "External" /\ HasUnsupported(s.target)

RECURSIVE Replaced(_, _, _)
\* the slice with a Null slice in place of every node of one of the types
\* and, when `doubles`, of every non-finite double
Replaced(s, types, doubles) ==
  IF s.type \in types \/ (doubles /\ IsUnsupported(s)) THEN NullSlice
  ELSE IF s.type = "Array"
  THEN ArraySlice([i \in 1..Len(s.items) |-> Replaced(s.items[i], types, doubles)])
  ELSE IF s.type = "Object"
  THEN [type |-> "Object",
        keys |-> [i \in 1..Len(s.keys) |-> Replaced(s.keys[i], types, doubles)],
        vals |-> [i \in 1..Len(s.vals) |-> Replaced(s.vals[i], types, doubles)]]
  ELSE IF s.type = "External" THEN ExternalSlice(Replaced(s.target, types, doubles))
  ELSE s

\* what a new instance without callback does with a slice
Plain(s) == internalDump(s, NullPtr, Empty, [Cfg EXCEPT !.callback = NoCallback])

\* C6: without a callback, a node that is None, UTCDate, Binary, MinKey,
\* MaxKey, BCD, Custom or a non-finite double, wherever it stands, gives
\* exactly "null" under StrategyNullify and the dump goes on (the output is
\* that of the document with a Null in its place), and raises NoJsonEquivalent
\* under StrategyFail (the dump stops where the "null" would go); no document
\* without such a node raises that error.
C6_UnsupportedPolicy ==
  Dumped /\ _callback = NoCallback =>
    LET n == Plain(Replaced(arg, {}, TRUE))
    IN  /\ _strategy = StrategyNullify => err = n.err /\ Appended = n.buffer
        /\ _strategy = StrategyFail /\ HasUnsupported(arg) =>
             \/ /\ err = "NoJsonEquivalent"
                /\ IsPrefix(Appended \o <<110, 117, 108, 108>>, n.buffer)
             \/ /\ err = "InvalidUtf8Sequence"
                /\ n.err = "InvalidUtf8Sequence"
                /\ Appended = n.buffer
        /\ err = "NoJsonEquivalent" => _strategy = StrategyFail /\ HasUnsupported(arg)

C6_Witness ==
  /\ Dumped
  /\ _callback = NoCallback
  /\ _strategy = StrategyNullify
  /\ ~PrettyPrint
  /\ arg = ObjectSlice(<<<<NoneSlice, Seven>>, <<StrK, NoneSlice>>>>)
  /\ Appended = <<123, 110, 117, 108, 108, 58, 55, 44,
                  34, 107, 34, 58, 110, 117, 108, 108, 125>>

RECURSIVE Visits(_, _, _, _)
RECURSIVE VisitsFrom(_, _, _, _, _)
\* the callback's invocations for s and the nodes below it, in the order of
\* the traversal: s with its parent, then (unless the callback handles s) its
\* members, each with s as parent.  The slice an External points to gets the
\* External's parent when `through`, and no parent otherwise.
Visits(s, parent, handles, through) ==
  <<[slice |-> s, parent |-> parent]>> \o
    (IF s.type \in handles THEN <<>>
     ELSE IF s.type = "External"
     THEN Visits(s.target, IF through THEN parent ELSE NullPtr, handles, through)
     ELSE VisitsFrom(s, 1, Children(s), handles, through))

VisitsFrom(s, i, members, handles, through) ==
  IF i > Len(members) THEN <<>>
  ELSE Visits(members[i], s, handles, through)
         \o VisitsFrom(s, i + 1, members, handles, through)

Seen(v) == [i \in 1..Len(v) |-> v[i].slice]

\* the slice and parent arguments of the calls made
Args == [i \in 1..Len(calls) |-> [slice |-> calls[i].slice, parent |-> calls[i].parent]]

\* the calls made are those expected, all of them unless an error ended the dump
CallsAre(expected) ==
  IF err = NoError THEN Args = expected
  ELSE Len(calls) >= 1 /\ IsPrefix(Args, expected)

\* the buffer holds the bytes `text` from position pos + 1 on
HoldsAt(pos, text) ==
  /\ Len(_buffer) >= pos + Len(text)
  /\ SubSeq(_buffer, pos + 1, pos + Len(text)) = text

\* how the output for a node starts: the callback's text if it handles the
\* node, the opening bracket of a container, the text of a scalar
Opening(s) ==
  IF s.type \in _callback.handles THEN _callback.text
  ELSE IF s.type = "Array" THEN <<91>>
  ELSE IF s.type = "Object" THEN <<123>>
  ELSE IF s.type = "External" THEN <<>>
  ELSE Plain(s).buffer

\* C7: a callback that is set is called for every node (root, elements, keys
\* and values) the traversal reaches; when it returns true the engine writes
\* nothing of its own for the node, does not descend into it and raises no
\* error for it, but goes on with the container's separators, brackets and
\* the following members; when it returns false the node is dumped as without
\* a callback.  Each call is made when nothing of the node is written yet:
\* the node's output starts where the buffer ended then.  The callbacks of the model write "null" for what they handle,
\* so the output is that of the document with Null in place of those nodes.
C7_Callback ==
  Dumped /\ _callback.set =>
    LET masked   == Plain(Replaced(arg, _callback.handles, FALSE))
        expected == Visits(arg, NullPtr, _callback.handles, FALSE)
    IN  /\ err = masked.err
        /\ Appended = masked.buffer
        /\ IF err = NoError THEN Seen(calls) = Seen(expected)
           ELSE Len(calls) >= 1 /\ IsPrefix(Seen(calls), Seen(expected))
        /\ calls[1].at = mark
        /\ \A i \in 1..Len(calls) : HoldsAt(calls[i].at, Opening(calls[i].slice))

C7_Witness ==
  /\ Dumped
  /\ _callback.set
  /\ _callback.handles = {"Array", "UInt"}
  /\ _strategy = StrategyFail
  /\ ~PrettyPrint
  /\ arg = ObjectSlice(<<<<StrK, ArraySlice(<<Seven>>)>>, <<StrK, Seven>>>>)
  /\ Len(calls) = 5
  /\ Appended = <<123, 34, 107, 34, 58, 110, 117, 108, 108, 44,
                  34, 107, 34, 58, 110, 117, 108, 108, 125>>

\* C8: the callback's parent argument is absent exactly for the root, and for
\* every other node it is the array or object holding the node, also for a
\* value reached through an External stored in a container.
C8_ParentIsContainer ==
  Dumped /\ _callback.set => CallsAre(Visits(arg, NullPtr, _callback.handles, TRUE))

\* C8 as the code has it: the parent is absent for the root and for the slice
\* an External points to; for every other node it is the array or object
\* holding the node.
C8_ParentOrExternalRoot ==
  Dumped /\ _callback.set => CallsAre(Visits(arg, NullPtr, _callback.handles, FALSE))

C8_Witness ==
  /\ Dumped
  /\ _callback.set
  /\ _callback.handles = {}
  /\ arg = ArraySlice(<<Seven, ExternalSlice(ArraySlice(<<StrA>>))>>)
  /\ err = NoError
  /\ Len(calls) = 5
  /\ Args[3] = [slice |-> ExternalSlice(ArraySlice(<<StrA>>)), parent |-> arg]
  /\ Args[4] = [slice |-> ArraySlice(<<StrA>>), parent |-> NullPtr]
  /\ Args[5] = [slice |-> StrA, parent |-> ArraySlice(<<StrA>>)]

Blanks(n) == [i \in 1..n |-> 32]

RECURSIVE Layout(_, _)
RECURSIVE LayoutFrom(_, _, _)
\* the text of a slice standing at a nesting level: a container's members in
\* storage order between its brackets; compact with ',' between members and
\* ':' after a key; pretty with each member on a line of its own after two
\* blanks for each level, " : " after a key, ',' after every member but the
\* last, and the closing bracket on a line of its own at the container's level
Layout(s, level) ==
  IF s.type = "Array" THEN <<91>> \o LayoutFrom(s, 1, level) \o <<93>>
  ELSE IF s.type = "Object" THEN <<123>> \o LayoutFrom(s, 1, level) \o <<125>>
  ELSE IF s.type = "External" THEN Layout(s.target, level)
  ELSE Plain(s).buffer

LayoutFrom(s, i, level) ==
  LET n == IF s.type = "Array" THEN Len(s.items) ELSE Len(s.keys)
      member ==
        IF s.type = "Array" THEN Layout(s.items[i], level + 1)
        ELSE Layout(s.keys[i], level + 1)
               \o (IF PrettyPrint THEN <<32, 58, 32>> ELSE <<58>>)
               \o Layout(s.vals[i], level + 1)
  IN  IF PrettyPrint THEN
        IF i > n THEN (IF n = 0 THEN <<10>> ELSE <<>>) \o Blanks(2 * level)
        ELSE (IF i = 1 THEN <<10>> ELSE <<>>) \o Blanks(2 * (level + 1)) \o member
               \o (IF i < n THEN <<44>> ELSE <<>>) \o <<10>>
               \o LayoutFrom(s, i + 1, level)
      ELSE
        IF i > n THEN <<>>
        ELSE (IF i > 1 THEN <<44>> ELSE <<>>) \o member \o LayoutFrom(s, i + 1, level)

\* C9: the members of an array or object are written in storage order between
\* its two brackets (also when it is empty); compact: no whitespace, ','
\* between members, ':' after a key; pretty: each member on its own line after
\* 2 blanks per level, " : " after a key, ',' after all members but the last,
\* the closing bracket on its own line; [7,7] gives "[\n  7,\n  7\n]" and
\* {"k":7} gives "{\n  \"k\" : 7\n}".
C9_Layout ==
  Dumped /\ _callback = NoCallback /\ err = NoError =>
    /\ Appended = Layout(arg, 0)
    /\ ~PrettyPrint => \A i \in 1..Len(Appended) : Appended[i] \notin {32, 10}
    /\ PrettyPrint /\ arg = ArraySlice(<<Seven, Seven>>) =>
         Appended = <<91, 10, 32, 32, 55, 44, 10, 32, 32, 55, 10, 93>>
    /\ PrettyPrint /\ arg = ObjectSlice(<<<<StrK, Seven>>>>) =>
         Appended = <<123, 10, 32, 32, 34, 107, 34, 32, 58, 32, 55, 10, 125>>

C9_Witness ==
  /\ Dumped
  /\ _callback = NoCallback
  /\ PrettyPrint
  /\ arg = ArraySlice(<<Seven, ArraySlice(<<Seven>>)>>)
  /\ Appended = <<91, 10, 32, 32, 55, 44, 10,
                  32, 32, 91, 10, 32, 32, 32, 32, 55, 10, 32, 32, 93, 10, 93>>

\* C10: without a callback the buffer only grows between resets: what it held
\* before a dump, append or appendString call is a prefix of what it holds
\* after, whether the call returned or threw; the bytes added are those the
\* call writes into an empty buffer, in full when it returns and up to the
\* error when it throws; only reset empties the buffer.
C10_AppendOnly ==
  [][IF op' = "reset" THEN _buffer' = <<>>
     ELSE /\ IsPrefix(_buffer, _buffer')
          /\ op' \in {"dump", "append"} =>
               LET alone == internalDump(arg', NullPtr,
                              [Empty EXCEPT !.indentation =
                                 IF op' = "dump" THEN 0 ELSE _indentation], Cfg)
               IN  _buffer' = _buffer \o alone.buffer /\ err' = alone.err
          /\ op' = "appendString" =>
               LET alone == dumpString(arg'.s, Empty)
               IN  /\ err' = alone.err
                   /\ _buffer' = _buffer \o <<34>> \o alone.buffer
                                   \o (IF err' = NoError THEN <<34>> ELSE <<>>)]_vars

\* after "7", a call that threw inside the inner array left "[7,[" behind
C10_Witness ==
  /\ op = "append"
  /\ arg = Nested
  /\ err = "NoJsonEquivalent"
  /\ mark = 1
  /\ _buffer = <<55, 91, 55, 44, 91>>

\* C11: on a pretty-printing instance every dump or append call, whatever
\* calls came before it (also ones that threw inside an array or object),
\* starts at indentation depth 0: the text it adds and its outcome are
\* those of the same call on a newly constructed instance.
C11_FreshIndentation ==
  (PrettyPrint /\ op \in {"dump", "append"}) =>
    LET fresh == internalDump(arg, NullPtr, Empty, Cfg)
    IN  Appended = fresh.buffer /\ err = fresh.err

====
